---------------------------- MODULE Spec2Model ----------------------------
(* Verification model of two units of the repository:                      *)
(*   - Adapter::AllowEmpty (src/bin/foreach, lines 154-202) and the        *)
(*     foreach shell script (src/bin/foreach, lines 1-129);                *)
(*   - the mrfilter command driver run() (src/cmd_to_port/mrfilter.cpp).   *)
(* Each unit has its own specification over its own variables: SpecAdapter,*)
(* SpecRun and SpecForeach / FairForeach.                                  *)
EXTENDS Integers, Sequences, FiniteSets, TLC

VARIABLES parent, direct, value_if_empty, ret, nops

VARIABLES cmdline, pc, status, error, input, filter, stdev, stdev_supplied,
          temp, output, log, l, oob

VARIABLES argv, command, fpc, args, njobs, verbose, cmd, common_suffix, k,
          lines, launched, running, xargs

adapterVars == <<parent, direct, value_if_empty, ret, nops>>
runVars == <<cmdline, pc, status, error, input, filter, stdev, stdev_supplied,
             temp, output, log, l, oob>>
foreachVars == <<argv, command, fpc, args, njobs, verbose, cmd, common_suffix, k,
                 lines, launched, running, xargs>>
vars == <<adapterVars, runVars, foreachVars>>

(***************************************************************************)
(* Bounds                                                                  *)
(***************************************************************************)
NDim == 2
AxisSize == 2
MaxVal == 1
MaxOps == 4
MaxLen == 4
MaxRank == 4
NVox == 2
MaxTargets == 2
MaxJobs == 2

(***************************************************************************)
(* Adapter::AllowEmpty                                                     *)
(***************************************************************************)
Axes == 0 .. (NDim - 1)
Values == 0 .. MaxVal
Increments == {-1, 1}
InBounds(pos) == \A a \in Axes : pos[a] >= 0 /\ pos[a] < AxisSize

RECURSIVE SumPos(_, _)
SumPos(pos, n) == IF n = 0 THEN 0 ELSE pos[n - 1] + SumPos(pos, n - 1)

\* Voxel contents of a freshly opened image: they differ between
\* neighbouring voxels, so a read at the wrong position is visible.
InitialData == [pos \in [Axes -> 0 .. (AxisSize - 1)] |-> SumPos(pos, NDim) % (MaxVal + 1)]

\* An image handle P: its validity flag, its cursor, its voxel storage, and
\* the instrumentation "accesses"/"failed" of a parent that fails when an
\* invalid handle is dereferenced.
NewImage(isvalid) ==
    [valid |-> isvalid, pos |-> [a \in Axes |-> 0], data |-> InitialData,
     accesses |-> 0, failed |-> FALSE]

Touch(img) == [img EXCEPT !.accesses = @ + 1, !.failed = @ \/ ~img.valid]

Image_size(img, axis) == AxisSize
Image_index(img, axis) == img.pos[axis]
Image_value(img) == img.data[img.pos]
Image_move_index(img, axis, inc) == [Touch(img) EXCEPT !.pos[axis] = @ + inc]
Image_set_value(img, val) == [Touch(img) EXCEPT !.data[img.pos] = val]
Image_reset(img) == [Touch(img) EXCEPT !.pos = [a \in Axes |-> 0]]

\* Base<ImageType>::valid(), ndim(), set_pos() and the size_ table used by
\* AllowEmpty.
valid(p) == p.valid
ndim(p) == NDim
set_pos(p, n, v) == [Touch(p) EXCEPT !.pos[n] = v]
size_(p) == [a \in Axes |-> Image_size(p, a)]

\* reset(): if (valid()) for (n = 0; n < ndim(); ++n) set_pos (n, 0);
RECURSIVE reset_loop(_, _)
reset_loop(p, n) == IF n >= ndim(p) THEN p ELSE reset_loop(set_pos(p, n, 0), n + 1)

reset(p) == IF valid(p) THEN reset_loop(p, 0) ELSE p

\* size (axis): valid() ? size_[axis] : 0. Reads return [ret, parent].
size(p, axis) == [ret |-> IF valid(p) THEN size_(p)[axis] ELSE 0, parent |-> p]

\* index (axis) const: valid() ? parent().index (axis) : 0
index(p, axis) ==
    IF valid(p) THEN [ret |-> Image_index(p, axis), parent |-> Touch(p)]
    ELSE [ret |-> 0, parent |-> p]

\* move_index (axis, increment): if (valid()) parent().index(axis) += increment
move_index_wrong_axis(p, axis, increment) ==
    IF valid(p) THEN Image_move_index(p, 0, increment) ELSE p
move_index(p, axis, increment) ==
    IF valid(p) THEN Image_move_index(p, axis, increment) ELSE p

\* value () const: valid() ? parent_.value() : value_if_empty
value(p, dflt) ==
    IF valid(p) THEN [ret |-> Image_value(p), parent |-> Touch(p)]
    ELSE [ret |-> dflt, parent |-> p]

\* set_value (val): if (valid()) parent_.value() = val
set_value_unguarded(p, val) == Image_set_value(p, val)
set_value(p, val) == IF valid(p) THEN Image_set_value(p, val) ELSE p

NoRet == [op |-> "none", axis |-> 0, val |-> 0]


\* The voxel accessors of a valid image are only called inside its bounds.
CanAccessVoxel == ~valid(parent) \/ InBounds(parent.pos)

DoReset ==
    /\ nops < MaxOps
    /\ parent' = reset(parent)
    /\ direct' = IF valid(direct) THEN Image_reset(direct) ELSE direct
    /\ ret' = [op |-> "reset", axis |-> 0, val |-> 0]
    /\ nops' = nops + 1
    /\ UNCHANGED <<value_if_empty, runVars, foreachVars>>

DoSize ==
    /\ nops < MaxOps
    /\ \E axis \in Axes :
         /\ parent' = size(parent, axis).parent
         /\ ret' = [op |-> "size", axis |-> axis, val |-> size(parent, axis).ret]
    /\ nops' = nops + 1
    /\ UNCHANGED <<direct, value_if_empty, runVars, foreachVars>>

DoIndex ==
    /\ nops < MaxOps
    /\ \E axis \in Axes :
         /\ parent' = index(parent, axis).parent
         /\ ret' = [op |-> "index", axis |-> axis, val |-> index(parent, axis).ret]
    /\ nops' = nops + 1
    /\ UNCHANGED <<direct, value_if_empty, runVars, foreachVars>>

DoMoveIndex ==
    /\ nops < MaxOps
    /\ \E axis \in Axes, inc \in Increments :
         /\ parent.pos[axis] + inc \in (-1) .. AxisSize
         /\ parent' = move_index(parent, axis, inc)
         /\ direct' = IF valid(direct) THEN Image_move_index(direct, axis, inc) ELSE direct
         /\ ret' = [op |-> "move_index", axis |-> axis, val |-> inc]
    /\ nops' = nops + 1
    /\ UNCHANGED <<value_if_empty, runVars, foreachVars>>

DoValue ==
    /\ nops < MaxOps
    /\ CanAccessVoxel
    /\ parent' = value(parent, value_if_empty).parent
    /\ ret' = [op |-> "value", axis |-> 0, val |-> value(parent, value_if_empty).ret]
    /\ nops' = nops + 1
    /\ UNCHANGED <<direct, value_if_empty, runVars, foreachVars>>

DoSetValue ==
    /\ nops < MaxOps
    /\ CanAccessVoxel
    /\ \E val \in Values :
         /\ parent' = set_value(parent, val)
         /\ direct' = IF valid(direct) THEN Image_set_value(direct, val) ELSE direct
         /\ ret' = [op |-> "set_value", axis |-> 0, val |-> val]
    /\ nops' = nops + 1
    /\ UNCHANGED <<value_if_empty, runVars, foreachVars>>

NextAdapter ==
    \/ DoReset
    \/ DoSize
    \/ DoIndex
    \/ DoMoveIndex
    \/ DoValue
    \/ DoSetValue



(***************************************************************************)
(* Properties of Adapter::AllowEmpty                                       *)
(***************************************************************************)

\* C1: for an AllowEmpty adapter whose parent is invalid, after any
\* sequence of reset, size, index, value, set_value and move_index the
\* parent has never been accessed, its state is unchanged, no error was
\* raised, every size and index read returned 0 and every value read
\* returned value_if_empty.
C1_InvalidParentInert ==
    ~valid(parent) =>
        /\ parent = NewImage(FALSE)
        /\ parent.accesses = 0 /\ ~parent.failed
        /\ ret.op \in {"size", "index"} => ret.val = 0
        /\ ret.op = "value" => ret.val = value_if_empty
        /\ \A axis \in Axes : size(parent, axis).ret = 0 /\ index(parent, axis).ret = 0

C1_Witness ==
    /\ ~valid(parent)
    /\ nops = MaxOps
    /\ ret.op = "value"
    /\ value_if_empty # 0

\* C5: for an AllowEmpty adapter whose parent P is valid, after any
\* sequence of reset, move_index and set_value applied through the adapter,
\* the adapter's size, index and value equal what P reports after the same
\* sequence applied to P directly.
C5_ValidParentDelegates ==
    valid(parent) =>
        /\ parent.pos = direct.pos
        /\ parent.data = direct.data
        /\ \A axis \in Axes :
             /\ size(parent, axis).ret = Image_size(direct, axis)
             /\ index(parent, axis).ret = Image_index(direct, axis)
        /\ InBounds(direct.pos) => value(parent, value_if_empty).ret = Image_value(direct)
        /\ ret.op = "size" => ret.val = Image_size(direct, ret.axis)
        /\ ret.op = "index" => ret.val = Image_index(direct, ret.axis)
        /\ ret.op = "value" => ret.val = Image_value(direct)

C5_Witness ==
    /\ valid(parent)
    /\ ret.op = "value"
    /\ parent.data # InitialData
    /\ \E a \in Axes : parent.pos[a] # 0 /\ \E b \in Axes : b # a /\ parent.pos[b] = 0
    /\ ret.val # InitialData[parent.pos]


(***************************************************************************)
(* mrfilter: the command line, images and filters run() works on           *)
(***************************************************************************)

RECURSIVE SeqsUpTo(_, _)
SeqsUpTo(S, n) ==
    IF n = 0 THEN {<<>>}
    ELSE LET shorter == SeqsUpTo(S, n - 1)
         IN shorter \cup {Append(q, x) : q \in {r \in shorter : Len(r) = n - 1}, x \in S}

\* Lengths are in units of 1e-4 mm.
StdevValues == {-10000, 0, 10000}
StdevLists == SeqsUpTo(StdevValues, MaxLen)
FwhmLists == {<<23548>>, <<23548, 47096, 0>>}
ExtentLists == {<<3>>, <<3, 5, 3>>}
AxesLists == {<<0>>, <<0, 1>>}
Ranks == 2 .. MaxRank
Voxels == 1 .. NVox

\* get_options (name): the occurrences of an option, each holding its
\* argument; opt.size() is Len and opt[0][0] the first occurrence's argument.
Occurrences(lists) == {<<>>} \cup {<<x>> : x \in lists}
Flag == {<<>>, <<"">>}

NoOptions ==
    [axes |-> <<>>, inverse |-> <<>>, magnitude |-> <<>>, centre_zero |-> <<>>,
     stdev |-> <<>>, scanner |-> <<>>, extent |-> <<>>, fwhm |-> <<>>, stride |-> <<>>]

\* The command lines: argument[1] (filter_index, 4 standing for a value
\* outside the choice list), the rank of the image argument[0] names, and
\* the options the selected case reads.
CmdLines ==
    LET base(i, r, s) == [filter_index |-> i, rank |-> r,
                          options |-> [NoOptions EXCEPT !.stride = s]]
    IN  {[base(0, r, s) EXCEPT !.options.axes = a, !.options.inverse = i,
                               !.options.magnitude = m, !.options.centre_zero = c] :
            r \in Ranks, s \in Flag, a \in Occurrences(AxesLists), i \in Flag,
            m \in Flag, c \in Flag}
        \cup
        {[base(1, r, s) EXCEPT !.options.stdev = sd, !.options.magnitude = m,
                               !.options.scanner = sc] :
            r \in Ranks, s \in Flag, sd \in Occurrences(StdevLists), m \in Flag,
            sc \in Flag}
        \cup
        {[base(2, r, s) EXCEPT !.options.extent = e] :
            r \in Ranks, s \in Flag, e \in Occurrences(ExtentLists)}
        \cup
        {[base(3, r, s) EXCEPT !.options.stdev = sd, !.options.fwhm = f,
                               !.options.extent = e] :
            r \in Ranks, s \in Flag, sd \in Occurrences(StdevLists),
            f \in Occurrences(FwhmLists), e \in Occurrences(ExtentLists)}
        \cup
        {base(4, r, <<>>) : r \in Ranks}

get_options(name) == cmdline.options[name]

\* Voxel values are pairs <<re, im>>; a real value has im = 0.
ComplexValues == {<<0, 0>>, <<3, 4>>, <<-4, 3>>, <<0, -2>>}
RealValues == {<<0, 0>>, <<5, 0>>}
Unwritten == <<0, 0>>

NoHeader == [ndim |-> 0, strides |-> "none", datatype |-> "none"]
NoImage ==
    [name |-> "none", value_type |-> "none", header |-> NoHeader,
     data |-> [v \in Voxels |-> Unwritten], writes |-> [v \in Voxels |-> 0]]
NoFilter ==
    [kind |-> "none", header |-> NoHeader, inverse |-> FALSE, magnitude |-> FALSE,
     axes |-> <<>>, centre_zero |-> <<>>, stdev |-> <<>>, extent |-> <<>>,
     wrt_scanner |-> <<>>, message |-> <<>>]

\* Image<T>::open (argument[0]), Image<T>::create (argument[2], filter) and
\* Image<T>::scratch (filter, ...): the new image takes the header given.
OpenImage(T) ==
    [NoImage EXCEPT !.name = "argument0", !.value_type = T,
                    !.header = [ndim |-> cmdline.rank, strides |-> "input",
                                datatype |-> "file"]]
CreateImage(T, name, header) ==
    [NoImage EXCEPT !.name = name, !.value_type = T, !.header = header]

\* The voxel size of the input on each axis, which the filter's header keeps.
voxsize(dim) == (dim + 1) * 10000

\* Filter constructors: the header a filter computes from its input.
FilterAcceptsRank(r) == r >= 3
FilterNdim(kind, r, magnitude) ==
    IF kind = "gradient" /\ ~magnitude THEN r + 1 ELSE r
FilterDatatype(kind) == IF kind = "fft" THEN "CFloat" ELSE "Float32"
ConstructFilter(kind, inverse, magnitude) ==
    [NoFilter EXCEPT !.kind = kind, !.inverse = inverse, !.magnitude = magnitude,
                     !.header = [ndim |-> FilterNdim(kind, input.header.ndim, magnitude),
                                 strides |-> "input",
                                 datatype |-> FilterDatatype(kind)]]

\* Stride::set_from_command_line (filter)
set_from_command_line(f) ==
    IF Len(get_options("stride")) > 0 THEN [f EXCEPT !.header.strides = "command line"]
    ELSE f

\* filter (input, target): the transform fills every voxel of its target.
TransformResults(kind) ==
    [Voxels -> IF kind = "fft" THEN ComplexValues ELSE RealValues]

InitRun ==
    /\ cmdline \in CmdLines
    /\ pc = "switch"
    /\ status = "running"
    /\ error = "none"
    /\ input = NoImage
    /\ filter = NoFilter
    /\ stdev = <<>>
    /\ stdev_supplied = FALSE
    /\ temp = NoImage
    /\ output = NoImage
    /\ log = <<>>
    /\ l = 0
    /\ oob = FALSE
    \* no adapter is in use
    /\ parent = NewImage(FALSE)
    /\ direct = NewImage(FALSE)
    /\ value_if_empty = 0
    /\ ret = NoRet
    /\ nops = 0
    \* foreach is not running
    /\ argv = <<>>
    /\ command = <<>>
    /\ fpc = "idle"
    /\ args = <<>>
    /\ njobs = <<>>
    /\ verbose = <<>>
    /\ cmd = <<>>
    /\ common_suffix = <<>>
    /\ k = 0
    /\ lines = <<>>
    /\ launched = <<>>
    /\ running = {}
    /\ xargs = "idle"

(***************************************************************************)
(* mrfilter: run()                                                         *)
(***************************************************************************)
At(label) == pc = label /\ status = "running"
Throw(e) == status' = "exception" /\ error' = e /\ pc' = "terminated"
Given(name) == Len(get_options(name)) > 0

\* const size_t filter_index = argument[1]; switch (filter_index)
CaseLabel(i) ==
    CASE i = 0 -> "fft_open"
      [] i = 1 -> "gradient_open"
      [] i = 2 -> "median_open"
      [] i = 3 -> "smooth_open"
      [] OTHER -> "default"

Switch ==
    /\ At("switch")
    /\ pc' = CaseLabel(cmdline.filter_index)
    /\ UNCHANGED <<adapterVars, foreachVars, cmdline, status, error, input, filter, stdev, stdev_supplied,
                   temp, output, log, l, oob>>

\* default: assert (0); break;  With assertions compiled in the process
\* aborts; with NDEBUG the assert is empty, the switch is left and run()
\* returns.
Default ==
    /\ At("default")
    /\ \/ status' = "aborted" /\ pc' = "terminated"
       \/ status' = "ok" /\ pc' = "done"
    /\ UNCHANGED <<adapterVars, foreachVars, cmdline, error, input, filter, stdev, stdev_supplied,
                   temp, output, log, l, oob>>

\* auto input = Image<T>::open (argument[0])
OpenInput(label, next, T) ==
    /\ At(label)
    /\ input' = OpenImage(T)
    /\ log' = Append(log, "open")
    /\ pc' = next
    /\ UNCHANGED <<adapterVars, foreachVars, cmdline, status, error, filter, stdev, stdev_supplied,
                   temp, output, l, oob>>

\* Filter::X filter (input, ...)
Construct(label, next, kind, inverse, magnitude) ==
    /\ At(label)
    /\ IF FilterAcceptsRank(input.header.ndim)
       THEN /\ filter' = ConstructFilter(kind, inverse, magnitude)
            /\ log' = Append(log, "construct")
            /\ pc' = next
            /\ UNCHANGED <<status, error>>
       ELSE /\ Throw("geometry")
            /\ UNCHANGED <<filter, log>>
    /\ UNCHANGED <<adapterVars, foreachVars, cmdline, input, stdev, stdev_supplied, temp, output, l, oob>>

\* A statement that configures the filter.
Configure(label, next, event, newfilter) ==
    /\ At(label)
    /\ filter' = newfilter
    /\ log' = Append(log, event)
    /\ pc' = next
    /\ UNCHANGED <<adapterVars, foreachVars, cmdline, status, error, input, stdev, stdev_supplied,
                   temp, output, l, oob>>

\* A branch not taken: if (opt.size()) with the option absent.
Skip(label, next) ==
    /\ At(label)
    /\ pc' = next
    /\ UNCHANGED <<adapterVars, foreachVars, cmdline, status, error, input, filter, stdev, stdev_supplied,
                   temp, output, log, l, oob>>

\* auto output = Image<T>::create (argument[2], filter)
CreateOutput(label, next, T) ==
    /\ At(label)
    /\ output' = CreateImage(T, "argument2", filter.header)
    /\ log' = Append(log, "create")
    /\ pc' = next
    /\ UNCHANGED <<adapterVars, foreachVars, cmdline, status, error, input, filter, stdev, stdev_supplied,
                   temp, l, oob>>

\* filter (input, output)
Filled(img, d) == [img EXCEPT !.data = d, !.writes = [v \in Voxels |-> @[v] + 1]]

ExecuteOnOutput(label, next) ==
    /\ At(label)
    /\ \E d \in TransformResults(filter.kind) : output' = Filled(output, d)
    /\ log' = Append(log, "execute(input,output)")
    /\ pc' = next
    /\ UNCHANGED <<adapterVars, foreachVars, cmdline, status, error, input, filter, stdev, stdev_supplied,
                   temp, l, oob>>

\* break; and the end of run()
Return ==
    /\ At("break")
    /\ status' = "ok"
    /\ pc' = "done"
    /\ UNCHANGED <<adapterVars, foreachVars, cmdline, error, input, filter, stdev, stdev_supplied,
                   temp, output, log, l, oob>>

SetStride_omitted(label, next) == Skip(label, next)
SetStride(label, next) ==
    Configure(label, next, "set_stride", set_from_command_line(filter))

SetMessage(label, next) ==
    Configure(label, next, "set_message", [filter EXCEPT !.message = <<"applying">>])

(***************************************************************************)
(* case 0: FFT                                                             *)
(***************************************************************************)
FftOpen == OpenInput("fft_open", "fft_construct", "cdouble")
FftConstruct == Construct("fft_construct", "fft_axes", "fft", Given("inverse"), FALSE)

FftSetAxes ==
    \/ /\ Given("axes")
       /\ Configure("fft_axes", "fft_centre_zero", "set_axes",
                    [filter EXCEPT !.axes = <<get_options("axes")[1]>>])
    \/ /\ ~Given("axes")
       /\ Skip("fft_axes", "fft_centre_zero")

FftSetCentreZero ==
    Configure("fft_centre_zero", "fft_stride", "set_centre_zero",
              [filter EXCEPT !.centre_zero = <<Given("centre_zero")>>])

FftSetStride == SetStride("fft_stride", "fft_message")
FftSetMessage == SetMessage("fft_message", "fft_magnitude")

FftMagnitudeBranch ==
    \/ /\ Given("magnitude")
       /\ Skip("fft_magnitude", "fft_scratch")
    \/ /\ ~Given("magnitude")
       /\ Skip("fft_magnitude", "fft_create")

\* auto temp = Image<cdouble>::scratch (filter, "complex FFT result")
FftScratch ==
    /\ At("fft_scratch")
    /\ temp' = CreateImage("cdouble", "scratch", filter.header)
    /\ log' = Append(log, "scratch")
    /\ pc' = "fft_execute_temp"
    /\ UNCHANGED <<adapterVars, foreachVars, cmdline, status, error, input, filter, stdev, stdev_supplied,
                   output, l, oob>>

\* filter (input, temp)
FftExecuteTemp ==
    /\ At("fft_execute_temp")
    /\ \E d \in TransformResults(filter.kind) : temp' = Filled(temp, d)
    /\ log' = Append(log, "execute(input,temp)")
    /\ pc' = "fft_datatype"
    /\ UNCHANGED <<adapterVars, foreachVars, cmdline, status, error, input, filter, stdev, stdev_supplied,
                   output, l, oob>>

\* filter.datatype() = DataType::Float32
FftSetDatatype ==
    Configure("fft_datatype", "fft_create_magnitude", "set_datatype",
              [filter EXCEPT !.header.datatype = "Float32"])

FftCreateMagnitude ==
    /\ CreateOutput("fft_create_magnitude", "fft_loop", "float")

\* std::abs (cdouble (temp.value()))
abs_real_part(c) == c[1]
abs(c) == CHOOSE m \in 0 .. (c[1] * c[1] + c[2] * c[2]) : m * m = c[1] * c[1] + c[2] * c[2]

\* LoopInOrder loop (output); for (auto l = loop (temp, output); l; ++l)
\*   output.value() = std::abs (cdouble(temp.value()));
\* l counts the voxels visited; the loop positions temp and output on the
\* same voxel.
FftLoopBody ==
    /\ At("fft_loop")
    /\ l < NVox
    /\ output' = [output EXCEPT !.data[l + 1] = <<abs(temp.data[l + 1]), 0>>,
                                !.writes[l + 1] = @ + 1]
    /\ l' = l + 1
    /\ UNCHANGED <<adapterVars, foreachVars, cmdline, pc, status, error, input, filter, stdev, stdev_supplied,
                   temp, log, oob>>

FftLoopEnd ==
    /\ l >= NVox
    /\ Skip("fft_loop", "break")

FftCreate == CreateOutput("fft_create", "fft_execute", "cdouble")
FftExecute == ExecuteOnOutput("fft_execute", "break")

(***************************************************************************)
(* case 1: Gradient                                                        *)
(***************************************************************************)
\* parse_floats (opt[0][0]): the command line holds the list it yields.
parse_floats(arg) == arg
parse_ints(arg) == arg

GradientOpen == OpenInput("gradient_open", "gradient_construct", "float")
GradientConstruct ==
    Construct("gradient_construct", "gradient_stdev", "gradient", FALSE, Given("magnitude"))

\* std::vector<default_type> stdev; auto opt = get_options ("stdev");
\* if (opt.size()) stdev = parse_floats (opt[0][0]); ... else ...
GradientGetStdev ==
    /\ At("gradient_stdev")
    /\ IF Given("stdev")
       THEN stdev' = parse_floats(get_options("stdev")[1]) /\ pc' = "gradient_check_negative"
       ELSE stdev' = <<>> /\ pc' = "gradient_default"
    /\ UNCHANGED <<adapterVars, foreachVars, cmdline, status, error, input, filter, stdev_supplied,
                   temp, output, log, l, oob>>

\* for (i = 0; i < stdev.size(); ++i) if (stdev[i] < 0.0) throw Exception (...)
HasNegative(v) == \E i \in 1 .. Len(v) : v[i] < 0

GradientCheckNegative ==
    /\ At("gradient_check_negative")
    /\ IF HasNegative(stdev)
       THEN Throw("the Gaussian stdev values cannot be negative")
       ELSE pc' = "gradient_check_count" /\ UNCHANGED <<status, error>>
    /\ UNCHANGED <<adapterVars, foreachVars, cmdline, input, filter, stdev, stdev_supplied, temp, output,
                   log, l, oob>>

\* if (stdev.size() != 1 && stdev.size() != 3) throw Exception (...)
BadCount_upto3(v) == Len(v) > 3
BadCount(v) == Len(v) # 1 /\ Len(v) # 3

GradientCheckCount ==
    /\ At("gradient_check_count")
    /\ IF BadCount(stdev)
       THEN Throw("unexpected number of elements specified in Gaussian stdev")
       ELSE pc' = "gradient_set_stdev" /\ UNCHANGED <<status, error>>
    /\ UNCHANGED <<adapterVars, foreachVars, cmdline, input, filter, stdev, stdev_supplied, temp, output,
                   log, l, oob>>

\* stdev.resize (filter.ndim(), 0.0);
\* for (dim = 0; dim != 3; ++dim) stdev[dim] = filter.voxsize (dim);
\* A write at dim >= stdev.size() is outside the vector: oob records it.
DefaultStdev(n) == [i \in 1 .. n |-> IF i <= 3 THEN voxsize(i - 1) ELSE 0]

GradientDefaultStdev ==
    /\ At("gradient_default")
    /\ stdev' = DefaultStdev(filter.header.ndim)
    /\ oob' = (filter.header.ndim < 3)
    /\ pc' = "gradient_set_stdev"
    /\ UNCHANGED <<adapterVars, foreachVars, cmdline, status, error, input, filter, stdev_supplied,
                   temp, output, log, l>>

\* filter.set_stdev (stdev)
GradientSetStdev ==
    Configure("gradient_set_stdev", "gradient_scanner", "set_stdev",
              [filter EXCEPT !.stdev = <<stdev>>])

\* filter.compute_wrt_scanner (get_options ("scanner").size() ? true : false)
GradientWrtScanner ==
    Configure("gradient_scanner", "gradient_message", "compute_wrt_scanner",
              [filter EXCEPT !.wrt_scanner = <<Given("scanner")>>])

GradientSetMessage == SetMessage("gradient_message", "gradient_stride")
GradientSetStride == SetStride("gradient_stride", "gradient_create")
GradientCreate == CreateOutput("gradient_create", "gradient_execute", "float")
GradientExecute == ExecuteOnOutput("gradient_execute", "break")

(***************************************************************************)
(* case 2: Median                                                          *)
(***************************************************************************)
MedianOpen == OpenInput("median_open", "median_construct", "float")
MedianConstruct == Construct("median_construct", "median_extent", "median", FALSE, FALSE)

\* if (opt.size()) filter.set_extent (parse_ints (opt[0][0]))
SetExtent(label, next) ==
    \/ /\ Given("extent")
       /\ Configure(label, next, "set_extent",
                    [filter EXCEPT !.extent = <<parse_ints(get_options("extent")[1])>>])
    \/ /\ ~Given("extent")
       /\ Skip(label, next)

MedianSetExtent == SetExtent("median_extent", "median_message")
MedianSetMessage == SetMessage("median_message", "median_stride")
MedianSetStride == SetStride("median_stride", "median_create")
MedianCreate == CreateOutput("median_create", "median_execute", "float")
MedianExecute == ExecuteOnOutput("median_execute", "break")

(***************************************************************************)
(* case 3: Smooth                                                          *)
(***************************************************************************)
SmoothOpen == OpenInput("smooth_open", "smooth_construct", "float")
SmoothConstruct == Construct("smooth_construct", "smooth_stdev", "smooth", FALSE, FALSE)

\* const bool stdev_supplied = opt.size();
\* if (stdev_supplied) filter.set_stdev (parse_floats (opt[0][0]));
SmoothSetStdev ==
    /\ At("smooth_stdev")
    /\ stdev_supplied' = Given("stdev")
    /\ IF Given("stdev")
       THEN /\ filter' = [filter EXCEPT !.stdev = <<parse_floats(get_options("stdev")[1])>>]
            /\ log' = Append(log, "set_stdev")
       ELSE UNCHANGED <<filter, log>>
    /\ pc' = "smooth_fwhm"
    /\ UNCHANGED <<adapterVars, foreachVars, cmdline, status, error, input, stdev, temp, output, l, oob>>

\* stdevs[d] = stdevs[d] / 2.3548
FwhmToStdev(list) == [d \in 1 .. Len(list) |-> (list[d] * 10000) \div 23548]

\* if (stdev_supplied) throw Exception ("the stdev and FWHM options are mutually exclusive.")
Exclusive_unchecked(supplied) == FALSE
Exclusive(supplied) == supplied

\* opt = get_options ("fwhm"); if (opt.size()) { ... filter.set_stdev (stdevs); }
SmoothSetFwhm ==
    /\ At("smooth_fwhm")
    /\ IF Given("fwhm")
       THEN IF Exclusive(stdev_supplied)
            THEN /\ Throw("the stdev and FWHM options are mutually exclusive.")
                 /\ UNCHANGED <<filter, stdev, log>>
            ELSE /\ stdev' = FwhmToStdev(parse_floats(get_options("fwhm")[1]))
                 /\ filter' = [filter EXCEPT !.stdev = <<stdev'>>]
                 /\ log' = Append(log, "set_stdev")
                 /\ pc' = "smooth_extent"
                 /\ UNCHANGED <<status, error>>
       ELSE /\ pc' = "smooth_extent"
            /\ UNCHANGED <<status, error, filter, stdev, log>>
    /\ UNCHANGED <<adapterVars, foreachVars, cmdline, input, stdev_supplied, temp, output, l, oob>>

SmoothSetExtent == SetExtent("smooth_extent", "smooth_message")
SmoothSetMessage == SetMessage("smooth_message", "smooth_stride")
SmoothSetStride == SetStride("smooth_stride", "smooth_create")
SmoothCreate == CreateOutput("smooth_create", "smooth_execute", "float")
SmoothExecute == ExecuteOnOutput("smooth_execute", "break")

NextRun ==
    \/ Switch
    \/ Default
    \/ FftOpen
    \/ FftConstruct
    \/ FftSetAxes
    \/ FftSetCentreZero
    \/ FftSetStride
    \/ FftSetMessage
    \/ FftMagnitudeBranch
    \/ FftScratch
    \/ FftExecuteTemp
    \/ FftSetDatatype
    \/ FftCreateMagnitude
    \/ FftLoopBody
    \/ FftLoopEnd
    \/ FftCreate
    \/ FftExecute
    \/ GradientOpen
    \/ GradientConstruct
    \/ GradientGetStdev
    \/ GradientCheckNegative
    \/ GradientCheckCount
    \/ GradientDefaultStdev
    \/ GradientSetStdev
    \/ GradientWrtScanner
    \/ GradientSetMessage
    \/ GradientSetStride
    \/ GradientCreate
    \/ GradientExecute
    \/ MedianOpen
    \/ MedianConstruct
    \/ MedianSetExtent
    \/ MedianSetMessage
    \/ MedianSetStride
    \/ MedianCreate
    \/ MedianExecute
    \/ SmoothOpen
    \/ SmoothConstruct
    \/ SmoothSetStdev
    \/ SmoothSetFwhm
    \/ SmoothSetExtent
    \/ SmoothSetMessage
    \/ SmoothSetStride
    \/ SmoothCreate
    \/ SmoothExecute
    \/ Return

(***************************************************************************)
(* foreach: strings are sequences of characters                            *)
(***************************************************************************)

RECURSIVE ReplaceAll(_, _, _)
\* ${s//pat/rep}: every non-overlapping match of pat, left to right; the
\* text inserted is not scanned again.
ReplaceAll(s, pat, rep) ==
    IF Len(s) < Len(pat) THEN s
    ELSE IF SubSeq(s, 1, Len(pat)) = pat
         THEN rep \o ReplaceAll(SubSeq(s, Len(pat) + 1, Len(s)), pat, rep)
         ELSE <<s[1]>> \o ReplaceAll(Tail(s), pat, rep)

Reverse(s) == [i \in 1 .. Len(s) |-> s[Len(s) + 1 - i]]

EndsWith(s, suffix) ==
    Len(suffix) <= Len(s) /\ SubSeq(s, Len(s) - Len(suffix) + 1, Len(s)) = suffix

LastIndexOf(s, c) ==
    LET hits == {i \in 1 .. Len(s) : s[i] = c}
    IN  IF hits = {} THEN 0 ELSE CHOOSE i \in hits : \A j \in hits : j <= i

\* basename "$arg" [suffix]: the part after the last slash, less the suffix
\* when the name ends with it and is not the suffix itself.
basename(path, suffix) ==
    LET base == SubSeq(path, LastIndexOf(path, "/") + 1, Len(path))
    IN  IF suffix # <<>> /\ base # suffix /\ EndsWith(base, suffix)
        THEN SubSeq(base, 1, Len(base) - Len(suffix))
        ELSE base

\* pre="${name%.*}": the name less its shortest suffix that starts with a dot.
StripExtension(name) ==
    IF LastIndexOf(name, ".") = 0 THEN name
    ELSE SubSeq(name, 1, LastIndexOf(name, ".") - 1)

\* The longest common prefix of two strings (sed: s,\(.*\).*\n\1.*,\1,).
CommonPrefix(a, b) ==
    LET n == IF Len(a) < Len(b) THEN Len(a) ELSE Len(b)
        agree == {i \in 0 .. n : SubSeq(a, 1, i) = SubSeq(b, 1, i)}
    IN  SubSeq(a, 1, CHOOSE i \in agree : \A j \in agree : j <= i)

RECURSIVE SedFold(_, _, _)
\* sed -e '1{h;d;}' -e 'G;s,...,\1,;h;$!d': line 1 is held and deleted; each
\* later line is replaced by its common prefix with the hold space, which is
\* held in turn; only the last line is printed.
SedFold(rows, i, hold) ==
    IF i > Len(rows) THEN hold
    ELSE SedFold(rows, i + 1, CommonPrefix(rows[i], hold))

\* printf '%s\n' "${args[@]}" | rev | sed ... | rev
CommonSuffix(targets) ==
    IF Len(targets) <= 1 THEN <<>>
    ELSE Reverse(SedFold([i \in 1 .. Len(targets) |-> Reverse(targets[i])], 2,
                         Reverse(targets[1])))

RECURSIVE SplitWords(_, _)
\* Word splitting of an unquoted expansion: the words between blanks.
SplitWords(s, word) ==
    IF s = <<>> THEN IF word = <<>> THEN <<>> ELSE <<word>>
    ELSE IF s[1] = " "
         THEN (IF word = <<>> THEN <<>> ELSE <<word>>) \o SplitWords(Tail(s), <<>>)
         ELSE SplitWords(Tail(s), Append(word, s[1]))

RECURSIVE JoinWords(_)
JoinWords(ws) ==
    IF ws = <<>> THEN <<>>
    ELSE IF Len(ws) = 1 THEN ws[1]
         ELSE ws[1] \o <<" ">> \o JoinWords(Tail(ws))

\* echo $actual_cmd: the words of the expansion, one blank between them.
echo(s) == JoinWords(SplitWords(s, <<>>))

Quoted(op) == <<"\"">> \o op \o <<"\"">>

\* actual_cmd=${cmd//IN/$arg} ... actual_cmd=${actual_cmd//\"||\"/||}
Unquote(c) ==
    ReplaceAll(ReplaceAll(ReplaceAll(ReplaceAll(c,
        Quoted(<<"|">>), <<"|">>),
        Quoted(<<";">>), <<";">>),
        Quoted(<<"&", "&">>), <<"&", "&">>),
        Quoted(<<"|", "|">>), <<"|", "|">>)

KeyIN == <<"I", "N">>
KeyNAME == <<"N", "A", "M", "E">>
KeyPRE == <<"P", "R", "E">>
KeyUNI == <<"U", "N", "I">>

Substitute(c, arg, name, pre, uni) ==
    ReplaceAll(ReplaceAll(ReplaceAll(ReplaceAll(c,
        KeyIN, arg), KeyNAME, name), KeyPRE, pre), KeyUNI, uni)

\* One iteration of the for loop: the line echoed for a target.
ActualCmd(c, arg, suffix) ==
    LET name == basename(arg, <<>>)
        pre == StripExtension(name)
        uni == basename(arg, suffix)
    IN  echo(Unquote(Substitute(c, arg, name, pre, uni)))

RECURSIVE BuildCmd(_)
\* while (( "$#" )); do cmd+="\"$1\" "; shift; done
BuildCmd(ws) ==
    IF ws = <<>> THEN <<>>
    ELSE Quoted(ws[1]) \o <<" ">> \o BuildCmd(Tail(ws))

\* njobs="-P ${1:1} "
njobs_of(word) == <<"-", "P", " ">> \o Tail(word) \o <<" ">>

DigitValue(c) ==
    CASE c = "0" -> 0 [] c = "1" -> 1 [] c = "2" -> 2 [] c = "3" -> 3 [] c = "4" -> 4
      [] c = "5" -> 5 [] c = "6" -> 6 [] c = "7" -> 7 [] c = "8" -> 8 [] c = "9" -> 9

\* xargs -0 $njobs -n 1 bash -c: the most processes xargs runs at a time;
\* 1 without -P, and 0 stands for as many as possible.
XargsMaxProcs_unlimited(nj) == 0
XargsMaxProcs(nj) == IF nj = <<>> THEN 1 ELSE DigitValue(SplitWords(nj, <<>>)[2][1])

(***************************************************************************)
(* foreach: the invocations, the script and the xargs it pipes to          *)
(***************************************************************************)
TargetNames ==
    { <<"d", "/", "a", ".", "m">>,
      <<"N", "A", "M", "E", "/", "x">>,
      <<"a", "P", "R", "E", "b", ".", "m">> }
TargetLists == SeqsUpTo(TargetNames, MaxTargets)

Digits == <<"0", "1", "2", "3", "4", "5", "6", "7", "8", "9">>
OptV == <<"-", "v">>
OptN == {<<"-", Digits[n + 1]>> : n \in 0 .. MaxJobs}
OptionLists == {<<>>, <<OptV>>} \cup {<<o>> : o \in OptN} \cup {<<OptV, o>> : o \in OptN}

\* The words before the colon.
Invocations == {o \o t : o \in OptionLists, t \in TargetLists}

\* The words after the colon.
Commands ==
    { <<>>,
      << <<"e">>, KeyIN >>,
      << <<"e">>, KeyNAME, <<"o", "/">> \o KeyPRE \o <<".", "x">> >>,
      << <<"e">>, KeyUNI, <<";">>, <<"e">>, KeyIN >> }

ExitStatuses == {0, 255}

InitForeach ==
    /\ argv \in Invocations
    /\ command \in Commands
    /\ fpc = "parse"
    /\ args = <<>>
    /\ njobs = <<>>
    /\ verbose = <<>>
    /\ cmd = <<>>
    /\ common_suffix = <<>>
    /\ k = 0
    /\ lines = <<>>
    /\ launched = <<>>
    /\ running = {}
    /\ xargs = "waiting"
    \* no adapter is in use
    /\ parent = NewImage(FALSE)
    /\ direct = NewImage(FALSE)
    /\ value_if_empty = 0
    /\ ret = NoRet
    /\ nops = 0
    \* mrfilter is not running
    /\ cmdline = [filter_index |-> 4, rank |-> 2, options |-> NoOptions]
    /\ pc = "idle"
    /\ status = "idle"
    /\ error = "none"
    /\ input = NoImage
    /\ filter = NoFilter
    /\ stdev = <<>>
    /\ stdev_supplied = FALSE
    /\ temp = NoImage
    /\ output = NoImage
    /\ log = <<>>
    /\ l = 0
    /\ oob = FALSE

\* while (( "$#" )); do ... shift; done, up to the colon
ParseWord ==
    /\ fpc = "parse"
    /\ argv # <<>>
    /\ LET word == Head(argv)
       IN  IF word = OptV
           THEN verbose' = <<"t", "r", "u", "e">> /\ UNCHANGED <<njobs, args>>
           ELSE IF word # <<>> /\ word[1] = "-"
                THEN njobs' = njobs_of(word) /\ UNCHANGED <<verbose, args>>
                ELSE args' = Append(args, word) /\ UNCHANGED <<verbose, njobs>>
    /\ argv' = Tail(argv)
    /\ UNCHANGED <<adapterVars, runVars, command, fpc, cmd, common_suffix, k, lines, launched, running, xargs>>

\* shift; while (( "$#" )); do cmd+="\"$1\" "; shift; done
\* if [ x"$cmd" == "x" ]; then echo "error: no command specified!"; exit 1; fi
ParseCommand ==
    /\ fpc = "parse"
    /\ argv = <<>>
    /\ cmd' = BuildCmd(command)
    /\ fpc' = IF cmd' = <<>> THEN "exit 1" ELSE "common_suffix"
    /\ UNCHANGED <<adapterVars, runVars, argv, command, args, njobs, verbose, common_suffix, k, lines,
                   launched, running, xargs>>

\* common_suffix=`printf '%s\n' "${args[@]}" | rev | sed ... | rev`
ComputeCommonSuffix ==
    /\ fpc = "common_suffix"
    /\ common_suffix' = CommonSuffix(args)
    /\ fpc' = "loop"
    /\ xargs' = "reading"
    /\ UNCHANGED <<adapterVars, runVars, argv, command, args, njobs, verbose, cmd, k, lines, launched, running>>

\* for arg in "${args[@]}"; do ... echo $actual_cmd; done: one iteration
\* writes one line to the pipe. A line is kept with the index of its target.
LoopBody ==
    /\ fpc = "loop"
    /\ k < Len(args)
    /\ lines' = Append(lines, [target |-> k + 1,
                               line |-> ActualCmd(cmd, args[k + 1], common_suffix)])
    /\ k' = k + 1
    /\ UNCHANGED <<adapterVars, runVars, argv, command, fpc, args, njobs, verbose, cmd, common_suffix,
                   launched, running, xargs>>

LoopEnd ==
    /\ fpc = "loop"
    /\ k >= Len(args)
    /\ fpc' = "done"
    /\ UNCHANGED <<adapterVars, runVars, argv, command, args, njobs, verbose, cmd, common_suffix, k, lines,
                   launched, running, xargs>>

\* xargs -0 $njobs -n 1 bash -c: one bash per line read, when a slot is free.
XargsLaunch ==
    /\ xargs = "reading"
    /\ lines # <<>>
    /\ XargsMaxProcs(njobs) = 0 \/ Cardinality(running) < XargsMaxProcs(njobs)
    /\ launched' = Append(launched, Head(lines))
    /\ running' = running \cup {Len(launched) + 1}
    /\ lines' = Tail(lines)
    /\ UNCHANGED <<adapterVars, runVars, argv, command, fpc, args, njobs, verbose, cmd, common_suffix, k, xargs>>

\* A job ends; xargs stops reading its input when one exits with status 255.
JobExit ==
    /\ \E j \in running, st \in ExitStatuses :
         /\ running' = running \ {j}
         /\ xargs' = IF st = 255 THEN "aborting" ELSE xargs
    /\ UNCHANGED <<adapterVars, runVars, argv, command, fpc, args, njobs, verbose, cmd, common_suffix, k,
                   lines, launched>>

NextForeach ==
    \/ ParseWord
    \/ ParseCommand
    \/ ComputeCommonSuffix
    \/ LoopBody
    \/ LoopEnd
    \/ XargsLaunch
    \/ JobExit


(***************************************************************************)
(* Specifications: one per unit, the other units' variables standing idle  *)
(***************************************************************************)



\* AllowEmpty (ImageType& original, value_if_empty): the adapter as constructed.
InitAdapter ==
    /\ \E v \in BOOLEAN : parent = NewImage(v) /\ direct = NewImage(v)
    /\ value_if_empty \in Values
    /\ ret = NoRet
    /\ nops = 0
    \* mrfilter is not running
    /\ cmdline = [filter_index |-> 4, rank |-> 2, options |-> NoOptions]
    /\ pc = "idle"
    /\ status = "idle"
    /\ error = "none"
    /\ input = NoImage
    /\ filter = NoFilter
    /\ stdev = <<>>
    /\ stdev_supplied = FALSE
    /\ temp = NoImage
    /\ output = NoImage
    /\ log = <<>>
    /\ l = 0
    /\ oob = FALSE
    \* foreach is not running
    /\ argv = <<>>
    /\ command = <<>>
    /\ fpc = "idle"
    /\ args = <<>>
    /\ njobs = <<>>
    /\ verbose = <<>>
    /\ cmd = <<>>
    /\ common_suffix = <<>>
    /\ k = 0
    /\ lines = <<>>
    /\ launched = <<>>
    /\ running = {}
    /\ xargs = "idle"

SpecAdapter ==
    /\ InitAdapter
    /\ [][NextAdapter]_vars

SpecRun ==
    /\ InitRun
    /\ [][NextRun]_vars

SpecForeach ==
    /\ InitForeach
    /\ [][NextForeach]_vars

\* The control flow of the script: a step of ParseWord, ParseCommand,
\* ComputeCommonSuffix, LoopBody or LoopEnd, and nothing else, is a
\* ScriptStep, and one is possible exactly when one of those is.
scriptVars == <<fpc, argv, k>>
ScriptStep ==
    \/ fpc = "parse" /\ argv # <<>> /\ argv' = Tail(argv) /\ UNCHANGED <<fpc, k>>
    \/ fpc = "parse" /\ argv = <<>> /\ fpc' \in {"exit 1", "common_suffix"}
         /\ UNCHANGED <<argv, k>>
    \/ fpc = "common_suffix" /\ fpc' = "loop" /\ UNCHANGED <<argv, k>>
    \/ fpc = "loop" /\ k < Len(args) /\ k' = k + 1 /\ UNCHANGED <<fpc, argv>>
    \/ fpc = "loop" /\ k >= Len(args) /\ fpc' = "done" /\ UNCHANGED <<argv, k>>

\* bash, xargs and the jobs are processes the system keeps scheduling, and a
\* job ends: the script runs on to its end, xargs launches a job when it has
\* a line and a free slot, and a running job eventually exits.
FairForeach ==
    /\ SpecForeach
    /\ WF_scriptVars(ScriptStep)
    /\ WF_vars(XargsLaunch)
    /\ WF_vars(JobExit)

(***************************************************************************)
(* Properties of mrfilter's run()                                          *)
(***************************************************************************)
Terminated == pc \in {"done", "terminated"}
Logged(event) == \E i \in 1 .. Len(log) : log[i] = event
ExclusiveError == "the stdev and FWHM options are mutually exclusive."
NegativeError == "the Gaussian stdev values cannot be negative"
CountError == "unexpected number of elements specified in Gaussian stdev"
ConfigurationEvents ==
    {"set_axes", "set_centre_zero", "set_stride", "set_message", "set_stdev",
     "compute_wrt_scanner", "set_extent"}
BothSupplied == cmdline.filter_index = 3 /\ Given("stdev") /\ Given("fwhm")

C3_GradientStdevValidated ==
    (cmdline.filter_index = 1 /\ Given("stdev")) =>
        LET list == get_options("stdev")[1]
            invalid == \/ \E i \in 1 .. Len(list) : list[i] < 0
                       \/ Len(list) \notin {1, 3}
        IN  IF invalid
            THEN /\ ~Logged("set_stdev") /\ filter.stdev = <<>>
                 /\ output = NoImage /\ ~Logged("create")
                 /\ ~Logged("execute(input,output)")
                 /\ Terminated => status = "exception"
                 /\ (Terminated /\ filter # NoFilter) => error \in {NegativeError, CountError}
            ELSE /\ status = "exception" => error = "geometry"
                 /\ Logged("set_stdev") => filter.stdev = <<list>>
                 /\ (Terminated /\ filter # NoFilter) =>
                        /\ status = "ok" /\ filter.stdev = <<list>>
                        /\ Logged("execute(input,output)")

C3_Witness ==
    /\ cmdline.filter_index = 1
    /\ status = "exception"
    /\ error = CountError
    /\ Len(get_options("stdev")[1]) = 2

\* The steps of a run in the order claimed: open, construct, configuration
\* with the stride selection in it, create, execute on (input, output).
DirectOrder ==
    /\ Len(log) >= 5
    /\ log[1] = "open" /\ log[2] = "construct"
    /\ \A i \in 3 .. (Len(log) - 2) : log[i] \in ConfigurationEvents
    /\ \E i \in 3 .. (Len(log) - 2) : log[i] = "set_stride"
    /\ log[Len(log) - 1] = "create"
    /\ log[Len(log)] = "execute(input,output)"
    /\ output.name = "argument2" /\ output.header = filter.header
    /\ \A v \in Voxels : output.writes[v] = 1

\* The steps of an fft run with the magnitude option: the transform runs on
\* the scratch image before the output is created.
MagnitudeOrder ==
    /\ Len(log) >= 8
    /\ log[1] = "open" /\ log[2] = "construct"
    /\ \A i \in 3 .. (Len(log) - 4) : log[i] \in ConfigurationEvents
    /\ \E i \in 3 .. (Len(log) - 4) : log[i] = "set_stride"
    /\ log[Len(log) - 3] = "scratch"
    /\ log[Len(log) - 2] = "execute(input,temp)"
    /\ log[Len(log) - 1] = "set_datatype"
    /\ log[Len(log)] = "create"
    /\ output.name = "argument2" /\ output.header = filter.header
    /\ \A v \in Voxels : temp.writes[v] = 1 /\ output.writes[v] = 1

FftMagnitude == cmdline.filter_index = 0 /\ Given("magnitude")

\* C4 as claimed: for every filter and every option combination a
\* successful run opens the input, constructs the filter, applies all
\* configuration, creates the output from the filter's header and then
\* executes the transform on (input, output).
C4_CreateBeforeExecute ==
    (status = "ok" /\ cmdline.filter_index \in 0 .. 3) => DirectOrder

\* C4 amended: every successful run except fft with the magnitude option
\* performs its steps in that order; a successful fft run with magnitude
\* opens the input, constructs and configures the filter, creates a scratch
\* image, executes the transform on (input, scratch), sets the filter's
\* datatype, creates the output and fills it from the scratch image.
C4_OrderOfSteps ==
    (status = "ok" /\ cmdline.filter_index \in 0 .. 3) =>
        IF FftMagnitude THEN MagnitudeOrder ELSE DirectOrder

C4_Witness ==
    /\ status = "ok"
    /\ cmdline.filter_index = 3
    /\ Given("fwhm") /\ Given("extent") /\ Given("stride")
    /\ output.header.strides = "command line"

\* C6: the fft output's datatype is complex unless the magnitude option is
\* set; with it the transform result is held in a complex intermediate
\* image and the output is a Float32 image of the intermediate's geometry
\* in which every voxel is written exactly once, with the modulus of the
\* intermediate's voxel at the same position.
C6_FftOutput ==
    cmdline.filter_index = 0 =>
        IF ~Given("magnitude")
        THEN /\ temp = NoImage
             /\ output # NoImage => output.header.datatype = "CFloat"
        ELSE /\ temp # NoImage =>
                  /\ temp.header.datatype = "CFloat" /\ temp.value_type = "cdouble"
             /\ output # NoImage =>
                  /\ Logged("execute(input,temp)")
                  /\ output.header.datatype = "Float32"
                  /\ output.header.ndim = temp.header.ndim
                  /\ output.header.strides = temp.header.strides
                  /\ \A v \in Voxels :
                       /\ output.writes[v] <= 1
                       /\ output.writes[v] = 1 =>
                            /\ output.data[v][1] >= 0 /\ output.data[v][2] = 0
                            /\ output.data[v][1] * output.data[v][1] =
                                 temp.data[v][1] * temp.data[v][1]
                                 + temp.data[v][2] * temp.data[v][2]
             /\ status = "ok" => \A v \in Voxels : output.writes[v] = 1

C6_Witness ==
    /\ FftMagnitude
    /\ status = "ok"
    /\ \E v \in Voxels : temp.data[v] = <<-4, 3>> /\ output.data[v] = <<5, 0>>
    /\ \E v \in Voxels : temp.data[v] = <<0, -2>> /\ output.data[v] = <<2, 0>>

\* C7: if the filter index is none of 0..3 the run aborts: it never returns
\* normally, and no image is opened or created and no filter is executed.
C7_UnknownFilterAborts ==
    cmdline.filter_index \notin 0 .. 3 =>
        /\ status # "ok"
        /\ input = NoImage /\ temp = NoImage /\ output = NoImage
        /\ filter = NoFilter /\ log = <<>>

\* C10: in every gradient run that reaches set_stdev the vector passed has
\* length 1 or 3; in the default case its entry for each axis d in 0..2 is
\* the voxel size on d, and building it writes nowhere outside the vector.
C10_StdevLength ==
    (cmdline.filter_index = 1 /\ Logged("set_stdev")) =>
        /\ Len(filter.stdev[1]) \in {1, 3}
        /\ ~Given("stdev") => \A d \in 0 .. 2 : filter.stdev[1][d + 1] = voxsize(d)
        /\ ~oob

(***************************************************************************)
(* Properties of foreach                                                   *)
(***************************************************************************)
StartedCount(t) == Cardinality({j \in 1 .. Len(launched) : launched[j].target = t})
AllStarted == \A t \in 1 .. Len(args) : StartedCount(t) = 1
NoneTwice == \A t \in 1 .. MaxTargets + 1 : StartedCount(t) <= 1
\* The N of the -N option, read off njobs = "-P N ".
RequestedN == DigitValue(njobs[4])
Parsed == fpc \notin {"parse", "idle"}

RECURSIVE SubstituteAtOnce(_, _, _, _, _)
\* The template with every IN, NAME, PRE and UNI replaced in one pass, so
\* that no inserted text is replaced in turn.
SubstituteAtOnce(c, arg, name, pre, uni) ==
    LET starts(key) == Len(c) >= Len(key) /\ SubSeq(c, 1, Len(key)) = key
        rest(key) == SubstituteAtOnce(SubSeq(c, Len(key) + 1, Len(c)), arg, name, pre, uni)
    IN  IF c = <<>> THEN <<>>
        ELSE IF starts(KeyIN) THEN arg \o rest(KeyIN)
        ELSE IF starts(KeyNAME) THEN name \o rest(KeyNAME)
        ELSE IF starts(KeyPRE) THEN pre \o rest(KeyPRE)
        ELSE IF starts(KeyUNI) THEN uni \o rest(KeyUNI)
        ELSE <<c[1]>> \o SubstituteAtOnce(Tail(c), arg, name, pre, uni)

ClaimedCmd(arg) ==
    LET name == basename(arg, <<>>)
    IN  echo(Unquote(SubstituteAtOnce(cmd, arg, name, StripExtension(name),
                                      basename(arg, common_suffix))))

\* C9: for every target the command executed is the template with IN
\* replaced by the target's path, NAME by its basename, PRE by its basename
\* less the extension and UNI by its basename less the common suffix, no
\* inserted text being altered by another substitution, whatever the
\* target's name.
C9_SubstitutionsIndependent ==
    \A j \in 1 .. Len(launched) :
        launched[j].line = ClaimedCmd(args[launched[j].target])

=============================================================================
